---- MODULE Spec2Model ----
(***************************************************************************)
(* Model of src/pid_optimization.tsx: the PIDOptimization component, its   *)
(* simulation runner (runSimulation), its scoring function and its         *)
(* autotuner.                                                              *)
(*                                                                         *)
(* Numbers.  The code computes in IEEE doubles; the model computes in      *)
(* fixed point, on grids where every operation of the code is exact:       *)
(*   - lengths, velocities, accelerations, forces: thousandths             *)
(*     (h_desired = 10 is 10000, g = 9.81 is 9810, mass 1.0 is the         *)
(*     multiplier 1);                                                      *)
(*   - times: whole multiples of the timestep; the timestep is a small     *)
(*     integer, so that error differences divide exactly by dt.  The       *)
(*     component's stepSize (0.01) and the autotune's dt (0.01) are one    *)
(*     unit of time; their horizons (1000 steps each) are bounds;          *)
(*   - overshoot: hundredths of a percent;                                 *)
(*   - scores: two-hundredths (0.005), which is what 0.5 * overshoot and   *)
(*     1.5 * settlingTime need; toFixed(2) rounds them to hundredths;      *)
(*   - Math.random(): a numerator over RandDen.                            *)
(* NaN (the code's altitude when dt = 0) is a flag beside the number.      *)
(***************************************************************************)
EXTENDS Integers, Sequences, FiniteSets, TLC

VARIABLES
    \* ---- the component's state (useState, lines 5-14)
    kp, ki, kd, timeRange, stepSize, windDisturbance,
    data, metrics, bestGains, autotuneStatus,
    \* ---- the component's control state
    mounted,      \* the mount effect (lines 22-24) has run
    timers,       \* pending setTimeout callbacks of autotune, oldest first
    tune,         \* the autotune callback that is executing, if any
    sampled,      \* the samples the executing callback has evaluated so far
    nextRun,      \* number of autotune clicks so far
    finished,     \* the runs whose callback has completed
    \* ---- one call of runSimulation, step by step
    args,         \* its arguments
    sim,          \* its locals i, h, v, integral_error, prev_error
    simData,      \* its local simData
    simB,         \* a second call with the same arguments, own random draws
    simDataB,
    sameDraws,    \* both calls have drawn the same random numbers so far
    pcSim,        \* "loop" | "done" | "off"
    \* ---- the autotune's inline metrics over a given trajectory
    inl,          \* riseTime, maxOvershoot, settlingTime, settled
    inlK          \* records consumed so far

vars == <<kp, ki, kd, timeRange, stepSize, windDisturbance, data, metrics,
          bestGains, autotuneStatus, mounted, timers, tune, sampled, nextRun,
          finished, args, sim, simData, simB, simDataB, sameDraws, pcSim,
          inl, inlK>>

compVars == <<kp, ki, kd, timeRange, stepSize, windDisturbance, bestGains,
              autotuneStatus, mounted, timers, tune, sampled, nextRun, finished>>
simVars == <<args, sim, simData, simB, simDataB, sameDraws, pcSim>>
inlVars == <<inl, inlK>>

(***************************************************************************)
(* Simulation parameters (lines 16-19), in thousandths.                    *)
(***************************************************************************)
m == 1
g == 9810
h_desired == 10000

\* Math.random() returns n / RandDen for a numerator n (lines 53, 151-153, 185).
\* 3800 makes the gains drawn at lines 151-153 and the wind of lines 53 and
\* 185 whole numbers of the model's units.
RandDen == 3800
\* The numerators drawn for the wind: r*2-1 is -51/100 or +49/100, which
\* times a magnitude of 0.5 is -0.255 or +0.245.
RandomDraws == {931, 2831}

\* Number.MAX_VALUE (line 132): above every score the model can produce.
MAX_VALUE == 2147483647

(***************************************************************************)
(* JavaScript arithmetic on the model's grids.                             *)
(***************************************************************************)
\* a / b for b # 0, exact on the grids used here.
JsDiv(a, b) == IF b > 0 THEN a \div b ELSE (0 - a) \div (0 - b)

\* Math.floor(a / b) for b # 0.
MathFloorDiv(a, b) == IF b > 0 THEN a \div b ELSE (0 - a) \div (0 - b)

MathAbs(x) == IF x < 0 THEN 0 - x ELSE x

MathMax(a, b) == IF a >= b THEN a ELSE b

(***************************************************************************)
(* runSimulation, lines 26-68: the loop.                                   *)
(***************************************************************************)
\* Lines 28-31 (and i = 0 of line 36).
SimInit == [i |-> 0, h |-> 0, v |-> 0, integral_error |-> 0, prev_error |-> 0,
            nan |-> FALSE]

\* Lines 34 and 36: i < Math.floor(timeLength / dt).  timeLength / 0 is
\* +Infinity for timeLength > 0 (the guard is then always true) and NaN or
\* -Infinity otherwise (the guard is then always false).
LoopGuardOffByOne(i, timeLength, dt) ==
    IF dt = 0 THEN timeLength > 0 ELSE i <= MathFloorDiv(timeLength, dt)

LoopGuard(i, timeLength, dt) ==
    IF dt = 0 THEN timeLength > 0 ELSE i < MathFloorDiv(timeLength, dt)

\* Line 53: windMagnitude * (Math.random() * 2 - 1), with Math.random() = n/RandDen.
WindIgnoringMagnitude(windMagnitude, n) == (1000 * (n * 2 - RandDen)) \div RandDen

Wind(windMagnitude, n) == (windMagnitude * (n * 2 - RandDen)) \div RandDen

\* Lines 37-67: one iteration; s holds the locals, n is the random numerator.
\* The result holds the new locals and the record pushed.  With dt = 0 the
\* derivative is Infinity or NaN, and v, h and every later value are NaN.
SimStepNoFeedForward(s, kpA, kiA, kdA, dt, windMagnitude, n) ==
    LET t == s.i * dt
        error == h_desired - s.h
        integral == s.integral_error + error * dt
    IN  IF dt = 0 \/ s.nan
        THEN [s |-> [s EXCEPT !.i = s.i + 1, !.nan = TRUE],
              rec |-> [time |-> t, altitude |-> 0, setpoint |-> h_desired,
                       thrust |-> 0, error |-> IF s.nan THEN 0 ELSE error,
                       nan |-> TRUE]]
        ELSE LET derivative_error == JsDiv(error - s.prev_error, dt)
                 thrust == kpA * error + kiA * integral + kdA * derivative_error
                 wind == Wind(windMagnitude, n)
                 a == JsDiv(thrust, m) - g + wind
                 v2 == s.v + a * dt
                 h2 == s.h + v2 * dt
             IN  [s |-> [i |-> s.i + 1, h |-> h2, v |-> v2,
                         integral_error |-> integral, prev_error |-> error,
                         nan |-> FALSE],
                  rec |-> [time |-> t, altitude |-> h2, setpoint |-> h_desired,
                           thrust |-> thrust, error |-> error, nan |-> FALSE]]

SimStep(s, kpA, kiA, kdA, dt, windMagnitude, n) ==
    LET t == s.i * dt
        error == h_desired - s.h
        integral == s.integral_error + error * dt
    IN  IF dt = 0 \/ s.nan
        THEN [s |-> [s EXCEPT !.i = s.i + 1, !.nan = TRUE],
              rec |-> [time |-> t, altitude |-> 0, setpoint |-> h_desired,
                       thrust |-> 0, error |-> IF s.nan THEN 0 ELSE error,
                       nan |-> TRUE]]
        ELSE LET derivative_error == JsDiv(error - s.prev_error, dt)
                 thrust == m * g + kpA * error + kiA * integral
                           + kdA * derivative_error
                 wind == Wind(windMagnitude, n)
                 a == JsDiv(thrust, m) - g + wind
                 v2 == s.v + a * dt
                 h2 == s.h + v2 * dt
             IN  [s |-> [i |-> s.i + 1, h |-> h2, v |-> v2,
                         integral_error |-> integral, prev_error |-> error,
                         nan |-> FALSE],
                  rec |-> [time |-> t, altitude |-> h2, setpoint |-> h_desired,
                           thrust |-> thrust, error |-> error, nan |-> FALSE]]

(***************************************************************************)
(* runSimulation, lines 70-103: the metrics pass over simData.             *)
(***************************************************************************)
\* Lines 72, 77-82: the time of the first record at or above 90% of the
\* setpoint, else timeLength.
RECURSIVE RiseFrom(_, _, _)
RiseFrom(recs, k, timeLength) ==
    IF k > Len(recs) THEN timeLength
    ELSE IF recs[k].altitude * 10 >= 9 * h_desired THEN recs[k].time
    ELSE RiseFrom(recs, k + 1, timeLength)

RiseTime(recs, timeLength) == RiseFrom(recs, 1, timeLength)

\* Line 86: (altitude - h_desired) / h_desired * 100, in hundredths of a
\* percent: one hundredth of a percent of h_desired is h_desired / 10000.
OvershootAmount(altitude) == JsDiv(altitude - h_desired, h_desired \div 10000)

\* Lines 73, 85-88: overshoot starts at 0 and takes Math.max with each record.
RECURSIVE OvershootFrom(_, _, _)
OvershootFrom(recs, k, overshoot) ==
    IF k > Len(recs) THEN overshoot
    ELSE OvershootFrom(recs, k + 1,
                       MathMax(overshoot, OvershootAmount(recs[k].altitude)))

OvershootUnfloored(recs) ==
    IF Len(recs) = 0 THEN 0
    ELSE OvershootFrom(recs, 2, OvershootAmount(recs[1].altitude))

Overshoot(recs) == OvershootFrom(recs, 1, 0)

\* Lines 71, 93-94: relativeError <= settlingThreshold (0.02 = 2/100).
InBand(altitude) == MathAbs(altitude - h_desired) <= (2 * h_desired) \div 100

\* Lines 74, 91-103: acc holds settled and settlingTime.
RECURSIVE SettleFrom(_, _, _)
SettleFrom(recs, k, acc) ==
    IF k > Len(recs) THEN acc.settlingTime
    ELSE IF InBand(recs[k].altitude)
         THEN IF ~acc.settled
              THEN SettleFrom(recs, k + 1,
                              [settled |-> TRUE, settlingTime |-> recs[k].time])
              ELSE SettleFrom(recs, k + 1, acc)
         ELSE IF acc.settled
              THEN SettleFrom(recs, k + 1, [acc EXCEPT !.settled = FALSE])
              ELSE SettleFrom(recs, k + 1, acc)

SettlingTimeFirstEntry(recs, timeLength) ==
    LET S == {k \in 1..Len(recs) : InBand(recs[k].altitude)}
    IN  IF S = {} THEN timeLength
        ELSE recs[CHOOSE k \in S : \A j \in S : k <= j].time

SettlingTime(recs, timeLength) ==
    SettleFrom(recs, 1, [settled |-> FALSE, settlingTime |-> timeLength])

\* Line 107: the object handed to setMetrics.
ExtractMetrics(recs, timeLength) ==
    [riseTime |-> RiseTime(recs, timeLength),
     overshoot |-> Overshoot(recs),
     settlingTime |-> SettlingTime(recs, timeLength)]

(***************************************************************************)
(* calculateScore, lines 111-121, in two-hundredths.  The weights are in   *)
(* halves: 1.0, 0.5, 1.5.                                                  *)
(***************************************************************************)
riseTimeWeight == 2
overshootWeight == 1
settlingTimeWeight == 3

Score(mt) ==
    riseTimeWeight * mt.riseTime * 100
    + overshootWeight * mt.overshoot
    + settlingTimeWeight * mt.settlingTime * 100

calculateScore == Score(metrics)

\* Number.prototype.toFixed(2) of a score: hundredths, the nearer one, the
\* larger of two equally near (lines 234, 325, 346).
ToFixed2(x) == IF x >= 0 THEN (x + 1) \div 2 ELSE 0 - ((1 - x) \div 2)

(***************************************************************************)
(* autotune, lines 163-166 and 192-214: the metrics of a sample, computed  *)
(* inside its simulation loop.                                             *)
(***************************************************************************)
\* Lines 163-166.
InlineInit(timeLength) ==
    [riseTime |-> timeLength, maxOvershoot |-> 0, settlingTime |-> timeLength,
     settled |-> FALSE]

\* Lines 192-214: the checks of one iteration, on the altitude h it reached
\* at time `time`.
InlineStep(acc, h, time, timeLength) ==
    LET rise == IF h * 10 >= 9 * h_desired /\ acc.riseTime = timeLength
                THEN time ELSE acc.riseTime
        overshootAmount == JsDiv(h - h_desired, h_desired \div 10000)
        over == IF overshootAmount > acc.maxOvershoot
                THEN overshootAmount ELSE acc.maxOvershoot
        relativeErrorInBand ==
            MathAbs(h - h_desired) <= (2 * h_desired) \div 100
    IN  IF relativeErrorInBand
        THEN IF ~acc.settled
             THEN [riseTime |-> rise, maxOvershoot |-> over,
                   settlingTime |-> time, settled |-> TRUE]
             ELSE [acc EXCEPT !.riseTime = rise, !.maxOvershoot = over]
        ELSE IF acc.settled
             THEN [riseTime |-> rise, maxOvershoot |-> over,
                   settlingTime |-> timeLength, settled |-> FALSE]
             ELSE [acc EXCEPT !.riseTime = rise, !.maxOvershoot = over]

\* Lines 218-221, in two-hundredths.
InlineScore(acc) ==
    2 * acc.riseTime * 100 + 1 * acc.maxOvershoot + 3 * acc.settlingTime * 100

\* Lines 26-68 as one call: the records pushed, given the random numerators
\* draws[1], draws[2], ... of its iterations.
RECURSIVE SimLoop(_, _, _, _, _, _, _, _, _)
SimLoop(s, recs, kpA, kiA, kdA, timeLength, dt, windMagnitude, draws) ==
    IF LoopGuard(s.i, timeLength, dt)
    THEN LET r == SimStep(s, kpA, kiA, kdA, dt, windMagnitude, draws[s.i + 1])
         IN  SimLoop(r.s, Append(recs, r.rec), kpA, kiA, kdA, timeLength, dt,
                     windMagnitude, draws)
    ELSE recs

runSimulation(kpA, kiA, kdA, timeLength, dt, windMagnitude, draws) ==
    LET recs == SimLoop(SimInit, <<>>, kpA, kiA, kdA, timeLength, dt,
                        windMagnitude, draws)
    IN  [data |-> recs, metrics |-> ExtractMetrics(recs, timeLength)]

(***************************************************************************)
(* autotune, lines 124-236.                                                *)
(***************************************************************************)
\* Lines 128-130 (the step fields are used for totalSteps only, which is
\* never read).
kpRange == [min |-> 1, max |-> 20]
kiRange == [min |-> 0, max |-> 5]
kdRange == [min |-> 0, max |-> 10]

\* Lines 151-153: range.min + Math.random() * (range.max - range.min).
GainDraw(range, n) == range.min + JsDiv(n * (range.max - range.min), RandDen)

\* The numerators drawn for the gains: kp in {1, 2}, ki = 0, kd in {0, 1}.
KpDraws == {0, 200}
KiDraws == {0}
KdDraws == {0, 380}

\* Lines 160-162: dt = 0.01 and timeLength = 10, 1000 iterations.  The model's
\* unit of time is this timestep; the number of iterations is a bound.
AutoDt == 1
AutoTimeLength == 3

\* Line 147: samples = 100 in the code.
Samples == 2

\* Lines 156-159.
AutoInit == [h |-> 0, v |-> 0, integral_error |-> 0, prev_error |-> 0]

\* Lines 168-215: the loop of one sample from iteration t on; s holds h, v,
\* integral_error, prev_error, acc the inline metrics.
RECURSIVE AutoLoop(_, _, _, _, _, _, _, _)
AutoLoop(s, acc, t, kpTest, kiTest, kdTest, wind0, draws) ==
    IF t < MathFloorDiv(AutoTimeLength, AutoDt)
    THEN LET time == t * AutoDt
             error == h_desired - s.h
             integral == s.integral_error + error * AutoDt
             derivative_error == JsDiv(error - s.prev_error, AutoDt)
             thrust == m * g + kpTest * error + kiTest * integral
                       + kdTest * derivative_error
             wind == Wind(wind0, draws[t + 1])
             a == JsDiv(thrust, m) - g + wind
             v2 == s.v + a * AutoDt
             h2 == s.h + v2 * AutoDt
         IN  AutoLoop([h |-> h2, v |-> v2, integral_error |-> integral,
                       prev_error |-> error],
                      InlineStep(acc, h2, time, AutoTimeLength),
                      t + 1, kpTest, kiTest, kdTest, wind0, draws)
    ELSE acc

\* Lines 156-221: the score of one sample.
SampleScore(kpTest, kiTest, kdTest, wind0, draws) ==
    InlineScore(AutoLoop(AutoInit, InlineInit(AutoTimeLength), 0,
                         kpTest, kiTest, kdTest, wind0, draws))

\* Line 149: the loop's exit, i < samples being false.
LoopEndedEarly(i) == i >= 1

LoopEnded(i) == ~(i < Samples)

\* Line 224.
IsBetterOrEqual(score, bestScore) == score <= bestScore

IsBetter(score, bestScore) == score < bestScore

\* Line 233: the object handed to setBestGains.
CompletedBestGainsIfLower(stored, bestConfig, bestScore) ==
    IF bestScore < stored.score
    THEN [kp |-> bestConfig.kp, ki |-> bestConfig.ki, kd |-> bestConfig.kd,
          score |-> bestScore]
    ELSE stored

CompletedBestGains(stored, bestConfig, bestScore) ==
    [kp |-> bestConfig.kp, ki |-> bestConfig.ki, kd |-> bestConfig.kd,
     score |-> bestScore]

\* Lines 125 and 234: the status strings; the second carries
\* bestScore.toFixed(2).
StatusNone == [kind |-> "", score |-> 0]
StatusInProgress == [kind |-> "Tuning in progress...", score |-> 0]
StatusComplete(bestScore) ==
    [kind |-> "Tuning complete!", score |-> ToFixed2(bestScore)]

(***************************************************************************)
(* One call of runSimulation (lines 26-108) with arbitrary arguments,      *)
(* iteration by iteration, beside a second call with the same arguments    *)
(* that draws its own random numbers.                                      *)
(***************************************************************************)
\* The argument grids.  Gains and magnitudes are what a caller may pass;
\* timeLength and dt include the non-positive values.
SimKp == {0, 1, 2}
SimKi == {0, 1}
SimKd == {0, 1}
SimTimeLength == {0 - 2, 0, 1, 3, 4, 5}
SimDt == {0 - 1, 0, 1, 2}
SimWind == {0, 500}

\* How many iterations of a loop that never ends (dt = 0) the model follows.
MaxDiverge == 3

NoMetrics == [riseTime |-> 0, overshoot |-> 0, settlingTime |-> 0]

NoArgs == [kp |-> 0, ki |-> 0, kd |-> 0, timeLength |-> 0, dt |-> 0,
           windMagnitude |-> 0]

NoInl == [riseTime |-> 0, maxOvershoot |-> 0, settlingTime |-> 0,
          settled |-> FALSE]

NoTune == [active |-> FALSE, run |-> 0, i |-> 0, bestScore |-> 0,
           bestConfig |-> [kp |-> 0, ki |-> 0, kd |-> 0], wind |-> 0]

\* The component's variables, for the specifications that leave it out.
CompOff ==
    /\ kp = 0 /\ ki = 0 /\ kd = 0 /\ timeRange = 0 /\ stepSize = 0
    /\ windDisturbance = 0
    /\ bestGains = [kp |-> 0, ki |-> 0, kd |-> 0, score |-> 0]
    /\ autotuneStatus = [kind |-> "", score |-> 0]
    /\ mounted = FALSE /\ timers = <<>> /\ tune = NoTune /\ sampled = <<>>
    /\ nextRun = 0 /\ finished = {}

SimOff ==
    /\ args = NoArgs /\ sim = SimInit /\ simData = <<>> /\ simB = SimInit
    /\ simDataB = <<>> /\ sameDraws = TRUE /\ pcSim = "off"

InlOff == inl = NoInl /\ inlK = 0

SimSpecInit ==
    /\ CompOff /\ InlOff
    /\ args \in [kp : SimKp, ki : SimKi, kd : SimKd, timeLength : SimTimeLength,
                 dt : SimDt, windMagnitude : SimWind]
    /\ sim = SimInit /\ simData = <<>>
    /\ simB = SimInit /\ simDataB = <<>>
    /\ sameDraws = TRUE
    /\ pcSim = "loop"
    /\ data = <<>>
    /\ metrics = NoMetrics

\* Lines 36-68: one iteration of each of the two calls.
SimLoopStep ==
    /\ pcSim = "loop"
    /\ LoopGuard(sim.i, args.timeLength, args.dt)
    /\ (args.dt = 0 => sim.i < MaxDiverge)
    /\ \E nA \in RandomDraws, nB \in RandomDraws :
          LET rA == SimStep(sim, args.kp, args.ki, args.kd, args.dt,
                            args.windMagnitude, nA)
              rB == SimStep(simB, args.kp, args.ki, args.kd, args.dt,
                            args.windMagnitude, nB)
          IN  /\ sim' = rA.s
              /\ simData' = Append(simData, rA.rec)
              /\ simB' = rB.s
              /\ simDataB' = Append(simDataB, rB.rec)
              /\ sameDraws' = (sameDraws /\ nA = nB)
    /\ UNCHANGED <<args, pcSim, data, metrics>>
    /\ UNCHANGED compVars /\ UNCHANGED inlVars

\* Lines 70-107: the loop has ended; metrics pass, setData, setMetrics.
SimFinish ==
    /\ pcSim = "loop"
    /\ ~LoopGuard(sim.i, args.timeLength, args.dt)
    /\ data' = simData
    /\ metrics' = ExtractMetrics(simData, args.timeLength)
    /\ pcSim' = "done"
    /\ UNCHANGED <<args, sim, simData, simB, simDataB, sameDraws>>
    /\ UNCHANGED compVars /\ UNCHANGED inlVars

SimNext == SimLoopStep \/ SimFinish

SimSpec == SimSpecInit /\ [][SimNext]_vars

ValidArgs == args.dt > 0 /\ args.timeLength > 0 /\ h_desired > 0 /\ m > 0

(***************************************************************************)
(* Claims about one call of runSimulation (checked under SimSpec).         *)
(***************************************************************************)
\* The i-th record (from 0) has time i * dt.
TimesAreMultiples(recs, dt) == \A k \in 1..Len(recs) : recs[k].time = (k - 1) * dt

\* n = floor(timeLength / dt), for dt > 0, stated without the division.
IsFloorOf(n, timeLength, dt) == n * dt <= timeLength /\ timeLength < (n + 1) * dt

\* C3 as stated: for every valid configuration a finished call has produced
\* exactly floor(horizon/dt) records, the i-th with time i*dt, and the first
\* record exists and has time 0.
C3_Original ==
    (pcSim = "done" /\ ValidArgs) =>
        /\ IsFloorOf(Len(data), args.timeLength, args.dt)
        /\ TimesAreMultiples(data, args.dt)
        /\ Len(data) >= 1
        /\ data[1].time = 0

\* C3 amended: for every valid configuration a finished call has produced
\* exactly floor(horizon/dt) records, the i-th with time i*dt; the first
\* record exists, with time 0, exactly when the horizon is at least one
\* timestep (a horizon shorter than the timestep yields no record).
C3_RecordCount ==
    (pcSim = "done" /\ ValidArgs) =>
        /\ IsFloorOf(Len(data), args.timeLength, args.dt)
        /\ TimesAreMultiples(data, args.dt)
        /\ (args.timeLength >= args.dt <=> Len(data) >= 1)
        /\ (Len(data) >= 1 => data[1].time = 0)

\* A finished call whose horizon is not a multiple of the timestep.
C3_Witness ==
    /\ pcSim = "done" /\ ValidArgs
    /\ args.dt = 2 /\ args.timeLength = 5 /\ Len(data) = 2
    /\ data[2].time = 2

C6_InvalidConfigFailsFast ==
    (pcSim # "off" /\ ~ValidArgs) =>
        /\ sim.i = 0 /\ simData = <<>>
        /\ pcSim # "done"

\* C8: two calls with the same arguments that have drawn the same random
\* numbers, or any random numbers when the disturbance magnitude is 0, have
\* identical locals and records, and identical metrics when they finish.
C8_Deterministic ==
    (pcSim # "off" /\ (sameDraws \/ args.windMagnitude = 0)) =>
        /\ sim = simB
        /\ simData = simDataB
        /\ (pcSim = "done" =>
              /\ data = simDataB
              /\ metrics = ExtractMetrics(simDataB, args.timeLength))

\* Two finished calls that drew different random numbers under magnitude 0.
C8_Witness ==
    /\ pcSim = "done" /\ ValidArgs
    /\ args.windMagnitude = 0 /\ ~sameDraws
    /\ args.kp > 0 /\ Len(data) >= 3

(***************************************************************************)
(* The two metrics computations over one given trajectory: runSimulation's *)
(* metrics pass (lines 70-107) and the autotune's inline checks (lines     *)
(* 163-166, 192-221), for every sequence of records with altitudes on a    *)
(* grid around the thresholds.                                             *)
(***************************************************************************)
\* Altitudes: the start, the 90% threshold, the two edges of the 2% band and
\* the first value above it.
AltGrid == {0, 9000, 9800, 10200, 10201}

\* The longest trajectory.
MaxRecords == 4

RecordsOf(alts, dt) ==
    [k \in 1..Len(alts) |->
        [time |-> (k - 1) * dt, altitude |-> alts[k], setpoint |-> h_desired,
         thrust |-> 0, error |-> 0, nan |-> FALSE]]

MetricsSpecInit ==
    /\ CompOff
    /\ \E n \in 0..MaxRecords, dt \in {1, 2}, rest \in {0, 1} :
          /\ rest < dt
          /\ args = [NoArgs EXCEPT !.dt = dt, !.timeLength = n * dt + rest]
          /\ \E alts \in [1..n -> AltGrid] : simData = RecordsOf(alts, dt)
          /\ inl = InlineInit(n * dt + rest)
    /\ inlK = 0
    /\ sim = SimInit /\ simB = SimInit /\ simDataB = <<>> /\ sameDraws = TRUE
    /\ pcSim = "given"
    /\ data = <<>>
    /\ metrics = NoMetrics

\* Lines 70-107 on the given records.
MetricsPass ==
    /\ pcSim = "given"
    /\ data' = simData
    /\ metrics' = ExtractMetrics(simData, args.timeLength)
    /\ pcSim' = "done"
    /\ UNCHANGED <<args, sim, simData, simB, simDataB, sameDraws>>
    /\ UNCHANGED compVars /\ UNCHANGED inlVars

\* Lines 192-214 on the next record's altitude and time.
InlineMetricsStep ==
    /\ pcSim \in {"given", "done"}
    /\ inlK < Len(simData)
    /\ inl' = InlineStep(inl, simData[inlK + 1].altitude, simData[inlK + 1].time,
                         args.timeLength)
    /\ inlK' = inlK + 1
    /\ UNCHANGED <<data, metrics>>
    /\ UNCHANGED simVars /\ UNCHANGED compVars

MetricsNext == MetricsPass \/ InlineMetricsStep

MetricsSpec == MetricsSpecInit /\ [][MetricsNext]_vars

BandIndices(recs) == {k \in 1..Len(recs) : InBand(recs[k].altitude)}

\* The indices at which the records enter the band.
BandEntries(recs) ==
    {k \in BandIndices(recs) : k = 1 \/ (k - 1) \notin BandIndices(recs)}

SetMax(S) == CHOOSE x \in S : \A y \in S : y <= x

\* C1: the settling time of the metrics pass is the time of the most recent
\* entry into the 2% band (the first record of the last maximal run of
\* in-band records), and the horizon when no record is in the band.
C1_SettlingMostRecentEntry ==
    pcSim = "done" =>
        metrics.settlingTime =
            IF BandIndices(data) = {} THEN args.timeLength
            ELSE data[SetMax(BandEntries(data))].time

\* Records that enter the band, leave it and enter it again: the second
\* entry's time is reported.
C1_Witness ==
    /\ pcSim = "done"
    /\ Len(data) = 4
    /\ InBand(data[1].altitude) /\ ~InBand(data[2].altitude)
    /\ InBand(data[3].altitude) /\ InBand(data[4].altitude)
    /\ metrics.settlingTime = data[3].time

\* The largest overshoot amount of a non-empty record sequence.
MaxOvershootAmount(recs) ==
    SetMax({OvershootAmount(recs[k].altitude) : k \in 1..Len(recs)})

\* C2 as stated: the reported overshoot is the maximum over all records of
\* (altitude - setpoint)/setpoint*100, with no floor at zero.
C2_Original ==
    (pcSim = "done" /\ Len(data) >= 1) =>
        metrics.overshoot = MaxOvershootAmount(data)

\* C2 amended: the reported overshoot is the maximum of 0 and of
\* (altitude - setpoint)/setpoint*100 over all records: it is floored at
\* zero, and a run whose altitude never exceeds the setpoint reports 0.
C2_OvershootFloored ==
    pcSim = "done" =>
        metrics.overshoot =
            IF Len(data) = 0 THEN 0 ELSE MathMax(0, MaxOvershootAmount(data))

\* A run whose altitude stays below the setpoint: 0 is reported, not the
\* negative maximum.
C2_Witness ==
    /\ pcSim = "done"
    /\ Len(data) >= 2
    /\ \A k \in 1..Len(data) : data[k].altitude < h_desired
    /\ MaxOvershootAmount(data) < 0
    /\ metrics.overshoot = 0

\* C9: once both computations have consumed the whole trajectory, the
\* inline rise time, overshoot and settling time equal those of the metrics
\* pass, and the inline score is calculateScore's weighted sum of them.
C9_InlineMetricsAgree ==
    (pcSim = "done" /\ inlK = Len(data)) =>
        /\ inl.riseTime = metrics.riseTime
        /\ inl.maxOvershoot = metrics.overshoot
        /\ inl.settlingTime = metrics.settlingTime
        /\ InlineScore(inl) = calculateScore

(***************************************************************************)
(* The component: its state, its event handlers and the autotune's timer   *)
(* callback.  JavaScript runs one handler at a time: while the callback    *)
(* executes (tune.active) no other handler runs.  The callback's loop is   *)
(* followed sample by sample.                                              *)
(***************************************************************************)
\* Lines 8-9: timeRange = 10 and stepSize = 0.01, which no handler changes:
\* 1000 iterations.  The model's unit of time is this timestep; the number
\* of iterations is a bound.
StepSize == 1
TimeRange == 1

\* The values the wind disturbance slider (lines 293-297) takes.  The three
\* gain sliders are left out: they write kp, ki, kd and, through the effect,
\* data and metrics, none of which the autotune reads.
SliderWind == {0, 500}

\* How many times Auto-Tune is clicked.
MaxRuns == 2

Init ==
    /\ kp = 5 /\ ki = 1 /\ kd = 2
    /\ timeRange = TimeRange /\ stepSize = StepSize
    /\ windDisturbance = 500
    /\ data = <<>>
    /\ metrics = NoMetrics
    /\ bestGains = [kp |-> 5, ki |-> 1, kd |-> 2, score |-> 0]
    /\ autotuneStatus = StatusNone
    /\ mounted = FALSE /\ timers = <<>> /\ tune = NoTune /\ sampled = <<>>
    /\ nextRun = 0 /\ finished = {}
    /\ SimOff /\ InlOff

\* Lines 22-24: the effect calls runSimulation with the new state.
Effect(kpN, kiN, kdN, windN) ==
    \E draws \in [1..MathFloorDiv(timeRange, stepSize) -> RandomDraws] :
        LET r == runSimulation(kpN, kiN, kdN, timeRange, stepSize, windN, draws)
        IN  data' = r.data /\ metrics' = r.metrics

Idle == mounted /\ ~tune.active

\* The first render's effect.
Mount ==
    /\ ~mounted
    /\ mounted' = TRUE
    /\ Effect(kp, ki, kd, windDisturbance)
    /\ UNCHANGED <<kp, ki, kd, timeRange, stepSize, windDisturbance, bestGains,
                   autotuneStatus, timers, tune, sampled, nextRun, finished>>
    /\ UNCHANGED simVars /\ UNCHANGED inlVars

\* Lines 293-297: the wind disturbance slider's onChange, and the effect.
SetWindDisturbance ==
    /\ Idle
    /\ \E x \in SliderWind \ {windDisturbance} :
          windDisturbance' = x /\ Effect(kp, ki, kd, x)
    /\ UNCHANGED <<kp, ki, kd, timeRange, stepSize, bestGains, autotuneStatus,
                   mounted, timers, tune, sampled, nextRun, finished>>
    /\ UNCHANGED simVars /\ UNCHANGED inlVars

\* Lines 124-137 and 235: the click sets the status and schedules the
\* callback, whose closure holds this render's windDisturbance and its own
\* bestScore and bestConfig.
Autotune ==
    /\ Idle
    /\ nextRun < MaxRuns
    /\ autotuneStatus' = StatusInProgress
    /\ nextRun' = nextRun + 1
    /\ timers' = Append(timers,
                        [run |-> nextRun + 1, wind |-> windDisturbance,
                         bestScore |-> MAX_VALUE,
                         bestConfig |-> [kp |-> 5, ki |-> 1, kd |-> 2]])
    /\ UNCHANGED <<kp, ki, kd, timeRange, stepSize, windDisturbance, data,
                   metrics, bestGains, mounted, tune, sampled, finished>>
    /\ UNCHANGED simVars /\ UNCHANGED inlVars

\* Lines 137-148: the oldest timer fires and its callback starts.
TimerFire ==
    /\ Idle
    /\ timers # <<>>
    /\ tune' = [active |-> TRUE, run |-> Head(timers).run, i |-> 0,
                bestScore |-> Head(timers).bestScore,
                bestConfig |-> Head(timers).bestConfig,
                wind |-> Head(timers).wind]
    /\ timers' = Tail(timers)
    /\ sampled' = <<>>
    /\ UNCHANGED <<kp, ki, kd, timeRange, stepSize, windDisturbance, data,
                   metrics, bestGains, autotuneStatus, mounted, nextRun,
                   finished>>
    /\ UNCHANGED simVars /\ UNCHANGED inlVars

\* Lines 149-230: one sample.  With logged, the sample is also appended to
\* the history variable sampled.
TuneSampleStep(logged) ==
    /\ tune.active
    /\ ~LoopEnded(tune.i)
    /\ \E nP \in KpDraws, nI \in KiDraws, nD \in KdDraws,
          draws \in [1..MathFloorDiv(AutoTimeLength, AutoDt) -> RandomDraws] :
          LET kpTest == GainDraw(kpRange, nP)
              kiTest == GainDraw(kiRange, nI)
              kdTest == GainDraw(kdRange, nD)
              score == SampleScore(kpTest, kiTest, kdTest, tune.wind, draws)
              config == [kp |-> kpTest, ki |-> kiTest, kd |-> kdTest]
          IN  /\ tune' = IF IsBetter(score, tune.bestScore)
                         THEN [tune EXCEPT !.i = tune.i + 1,
                                           !.bestScore = score,
                                           !.bestConfig = config]
                         ELSE [tune EXCEPT !.i = tune.i + 1]
              /\ sampled' = IF logged
                            THEN Append(sampled,
                                        [config |-> config, score |-> score])
                            ELSE sampled
    /\ UNCHANGED <<kp, ki, kd, timeRange, stepSize, windDisturbance, data,
                   metrics, bestGains, autotuneStatus, mounted, timers, nextRun,
                   finished>>
    /\ UNCHANGED simVars /\ UNCHANGED inlVars

TuneSample == TuneSampleStep(FALSE)

TuneSampleLogged == TuneSampleStep(TRUE)

\* Lines 232-234: the loop has ended.
TuneComplete ==
    /\ tune.active
    /\ LoopEnded(tune.i)
    /\ bestGains' = CompletedBestGains(bestGains, tune.bestConfig, tune.bestScore)
    /\ autotuneStatus' = StatusComplete(tune.bestScore)
    /\ finished' = finished \cup {tune.run}
    /\ tune' = NoTune
    /\ sampled' = <<>>
    /\ UNCHANGED <<kp, ki, kd, timeRange, stepSize, windDisturbance, data,
                   metrics, mounted, timers, nextRun>>
    /\ UNCHANGED simVars /\ UNCHANGED inlVars

\* Lines 239-243, and the effect when a gain changed.
ApplyBestGains ==
    /\ Idle
    /\ <<bestGains.kp, bestGains.ki, bestGains.kd>> # <<kp, ki, kd>>
    /\ kp' = bestGains.kp /\ ki' = bestGains.ki /\ kd' = bestGains.kd
    /\ Effect(bestGains.kp, bestGains.ki, bestGains.kd, windDisturbance)
    /\ UNCHANGED <<timeRange, stepSize, windDisturbance, bestGains,
                   autotuneStatus, mounted, timers, tune, sampled, nextRun,
                   finished>>
    /\ UNCHANGED simVars /\ UNCHANGED inlVars

Next ==
    \/ Mount
    \/ SetWindDisturbance
    \/ Autotune \/ TimerFire \/ TuneSample \/ TuneComplete
    \/ ApplyBestGains

Spec == Init /\ [][Next]_vars

\* TuneSample is enabled exactly when the callback is inside its loop.
TuneSampleEnabled == tune.active /\ ~LoopEnded(tune.i)

\* The event loop runs every scheduled callback (setTimeout, lines 137 and
\* 235), and the callback, once started, runs to its end: weak fairness of
\* TimerFire, TuneSample and TuneComplete.  WF_vars(TuneSample) is written
\* out by its definition, with TuneSampleEnabled for ENABLED <<TuneSample>>_vars.
FairSpec ==
    /\ Spec
    /\ WF_vars(TimerFire)
    /\ ([]<>(~TuneSampleEnabled) \/ []<><<TuneSample>>_vars)
    /\ WF_vars(TuneComplete)

(***************************************************************************)
(* The autotune alone, with the history of its samples.                    *)
(***************************************************************************)
TuneNext ==
    \/ Mount
    \/ Autotune \/ TimerFire \/ TuneSampleLogged \/ TuneComplete

TuneSpec == Init /\ [][TuneNext]_vars

SetMin(S) == CHOOSE x \in S : \A y \in S : x <= y

SampledScores == {sampled[k].score : k \in 1..Len(sampled)}

\* The first sample, in draw order, with the lowest score.
FirstMinimum ==
    SetMin({k \in 1..Len(sampled) : sampled[k].score = SetMin(SampledScores)})

\* C5: the completion of an autotune run stores the minimum of the scores
\* of all samples of the run, with the gains of the first sample, in draw
\* order, that attained it.
C5_FirstMinimumKept ==
    [][(tune.active /\ ~tune'.active) =>
          /\ Len(sampled) = Samples
          /\ bestGains'.score = SetMin(SampledScores)
          /\ bestGains'.score = sampled[FirstMinimum].score
          /\ bestGains'.kp = sampled[FirstMinimum].config.kp
          /\ bestGains'.ki = sampled[FirstMinimum].config.ki
          /\ bestGains'.kd = sampled[FirstMinimum].config.kd]_vars

\* A run about to complete in which a later sample with other gains tied
\* with the first minimum and did not replace it.
C5_Witness ==
    /\ tune.active /\ LoopEnded(tune.i) /\ Len(sampled) = Samples
    /\ \E j \in 1..Len(sampled) :
          /\ j > FirstMinimum
          /\ sampled[j].score = sampled[FirstMinimum].score
          /\ sampled[j].config # sampled[FirstMinimum].config
    /\ tune.bestConfig = sampled[FirstMinimum].config

(***************************************************************************)
(* Claims about the component (checked under Spec and FairSpec).           *)
(***************************************************************************)
\* C7: a click on Auto-Tune sets the status to in-progress; every started
\* run eventually completes; a completion happens only when the callback
\* has evaluated all its samples, sets the status to complete and stores in
\* the status the score (to two decimals) it stores in bestGains; and the
\* complete status always carries the score stored in bestGains.
C7_StatusLifecycle ==
    /\ [][nextRun' # nextRun =>
            /\ autotuneStatus' = StatusInProgress
            /\ nextRun' \notin finished']_vars
    /\ \A r \in 1..MaxRuns : (nextRun >= r) ~> (r \in finished)
    /\ [][finished' # finished =>
            /\ tune.active /\ tune.i = Samples
            /\ finished' = finished \cup {tune.run}
            /\ autotuneStatus'.kind = "Tuning complete!"
            /\ autotuneStatus'.score = ToFixed2(bestGains'.score)]_vars
    /\ [](autotuneStatus.kind = "Tuning complete!" =>
            /\ finished # {}
            /\ autotuneStatus.score = ToFixed2(bestGains.score))

\* Two overlapping runs have both completed; the status is complete and its
\* score is the rounded score of bestGains.
C7_Witness ==
    /\ finished = {1, 2}
    /\ autotuneStatus.kind = "Tuning complete!"
    /\ autotuneStatus.score * 2 # bestGains.score
    /\ autotuneStatus.score = ToFixed2(bestGains.score)

\* C10 as stated: bestGains is replaced only by a result with a strictly
\* lower score than the one stored.
C10_Original ==
    [][bestGains' # bestGains => bestGains'.score < bestGains.score]_vars

\* C10 amended: within a run the running best (bestScore, bestConfig) is
\* replaced only by a sample with a strictly lower score; bestGains changes
\* only at a completion, which replaces it by the run's best whatever score
\* was stored (a greater or equal one included).
C10_ReplacedAtCompletion ==
    [][/\ (tune.active /\ tune'.active
             /\ <<tune'.bestScore, tune'.bestConfig>>
                  # <<tune.bestScore, tune.bestConfig>>)
            => tune'.bestScore < tune.bestScore
       /\ (tune.active /\ ~tune'.active)
            => bestGains' = [kp |-> tune.bestConfig.kp, ki |-> tune.bestConfig.ki,
                             kd |-> tune.bestConfig.kd, score |-> tune.bestScore]
       /\ bestGains' # bestGains => (tune.active /\ ~tune'.active)]_vars

\* Both runs have completed and the stored score, initially 0, is greater.
C10_Witness ==
    /\ finished = {1, 2}
    /\ ~tune.active
    /\ bestGains.score > 0

====
